---- MODULE Spec2Model ----
(***************************************************************************)
(* Persistent bit-partitioned vector (vector.go): Vector with its tail     *)
(* buffer and 32-way trie, and the transient Builder.  The heap of nodes   *)
(* is explicit, so that sharing between versions and stores into shared    *)
(* nodes are visible.                                                      *)
(***************************************************************************)
EXTENDS Integers, Sequences, FiniteSets

VARIABLES heap, calls, bld, race

vars == <<heap, calls, bld, race>>

-----------------------------------------------------------------------------
(* Constants of vector.go *)

bits == 5

width == 32

mask == width - 1

(* Bounds of the model: the number of API calls in one history, and the     *)
(* number of them that may be calls of New.  New reads nothing of the heap *)
(* and shares no node with an existing Vector, so a history is taken with  *)
(* its calls of New first.                                                 *)
MaxCalls == 3

MaxNew == 1

-----------------------------------------------------------------------------
(* Slots of node.array ([width]any).  A slot holds the nil interface, an   *)
(* element of type T, a *node[T] (v = 0 is the nil pointer stored in the   *)
(* interface) or a node[T] struct value.                                   *)

NilSlot == [k |-> "nil", v |-> 0]

Elem(t) == [k |-> "elem", v |-> t]

Ptr(p) == [k |-> "ptr", v |-> p]

NodeVal == [k |-> "node", v |-> 0]

EmptyNode == [len |-> 0, array |-> [j \in 1..width |-> NilSlot]]

(* The zero value Vector[T]{} and its test v == (Vector[T]{}). *)
ZeroVector == [cnt |-> 0, shift |-> 0, root |-> 0, tail |-> 0]

IsZero(v) == v = ZeroVector

(* i >> n and the slot index ((i >> level) & mask), as a 1-based position. *)
Shr(i, n) == i \div (2 ^ n)

Sub(i, level) == (Shr(i, level) % width) + 1

(* &node[T]{...}: allocation of a new node; its address is Len(h) + 1.     *)
(* A node that is allocated and dropped before anything refers to it (the  *)
(* newRoot := &node[T]{} that pushTail's result replaces) is not allocated *)
(* here.                                                                    *)
Alloc(h, n) == Append(h, n)

Fresh(h) == Len(h) + 1

(* A newValueNode that drops its value: the node counts one element and   *)
(* holds none.  C10_BuilderAsNew does not hold of it.                      *)
newValueNode_Empty(t) == [len |-> 1, array |-> [j \in 1..width |-> NilSlot]]

newValueNode(t) == [len |-> 1, array |-> [j \in 1..width |-> IF j = 1 THEN Elem(t) ELSE NilSlot]]

newPathNode(p) == [len |-> 1, array |-> [j \in 1..width |-> IF j = 1 THEN Ptr(p) ELSE NilSlot]]

newVector(h) ==
    [h |-> Alloc(h, EmptyNode),
     v |-> [cnt |-> 0, shift |-> bits, root |-> Fresh(h), tail |-> Fresh(h)]]

tailoff(v) == IF v.cnt < width THEN 0 ELSE Shr(v.cnt - 1, bits) * (2 ^ bits)

-----------------------------------------------------------------------------
(* Vector.nodeFor and Vector.At.  st is "ok", "oob" (panic "index out of   *)
(* bounds") or "panic" (a run-time panic: nil dereference, failed type     *)
(* assertion, index or slice out of range).                                *)

RECURSIVE nodeForLoop(_, _, _, _)
nodeForLoop(h, n, level, i) ==
    IF level <= 0 THEN [st |-> "ok", n |-> n]
    ELSE IF n = 0 THEN [st |-> "panic", n |-> 0]
    ELSE LET s == h[n].array[Sub(i, level)]
         IN  IF s.k # "ptr" THEN [st |-> "panic", n |-> 0]
             ELSE nodeForLoop(h, s.v, level - bits, i)

(* A nodeFor whose bound check lets the index Len() through.  C7_OutOfRange *)
(* does not hold of it.                                                    *)
nodeFor_AllowsLen(h, v, i) ==
    IF i >= 0 /\ i <= v.cnt
    THEN IF i >= tailoff(v) THEN [st |-> "ok", n |-> v.tail]
         ELSE nodeForLoop(h, v.root, v.shift, i)
    ELSE [st |-> "oob", n |-> 0]

nodeFor(h, v, i) ==
    IF i >= 0 /\ i < v.cnt
    THEN IF i >= tailoff(v) THEN [st |-> "ok", n |-> v.tail]
         ELSE nodeForLoop(h, v.root, v.shift, i)
    ELSE [st |-> "oob", n |-> 0]

(* t, _ := slot.(T): the element, or the zero value of T. *)
AsT(s) == IF s.k = "elem" THEN s.v ELSE 0

At(h, v, i) ==
    LET r == nodeFor(h, v, i)
    IN  IF r.st # "ok" THEN [st |-> r.st, val |-> 0]
        ELSE IF r.n = 0 THEN [st |-> "panic", val |-> 0]
        ELSE [st |-> "ok", val |-> AsT(h[r.n].array[(i % width) + 1])]

-----------------------------------------------------------------------------
(* newPath *)

RECURSIVE newPath(_, _, _)
newPath(h, level, n) ==
    IF level <= 0 THEN [h |-> h, n |-> n]
    ELSE LET r == newPath(h, level - bits, n)
         IN  [h |-> Alloc(r.h, newPathNode(r.n)), n |-> Fresh(r.h)]

-----------------------------------------------------------------------------
(* Builder: pushTail, Cons, Append, Vector; Vector.transient; New.         *)

RECURSIVE Builder_pushTail(_, _, _, _, _)
Builder_pushTail(h, cnt, level, parent, tailNode) ==
    LET subidx == Sub(cnt - 1, level)
    IN  IF parent = 0 THEN [st |-> "panic", h |-> h, n |-> 0]
        ELSE IF level = bits
        THEN [st |-> "ok",
              h |-> [h EXCEPT ![parent].array[subidx] = Ptr(tailNode)],
              n |-> parent]
        ELSE LET child == h[parent].array[subidx]
             IN  IF child.k = "nil"
                 THEN LET p == newPath(h, level - bits, tailNode)
                      IN  [st |-> "ok",
                           h |-> [p.h EXCEPT ![parent].array[subidx] = Ptr(p.n)],
                           n |-> parent]
                 ELSE IF child.k # "ptr" THEN [st |-> "panic", h |-> h, n |-> 0]
                 ELSE LET r == Builder_pushTail(h, cnt, level - bits, child.v, tailNode)
                      IN  IF r.st # "ok" THEN r
                          ELSE [st |-> "ok",
                                h |-> [r.h EXCEPT ![parent].array[subidx] = Ptr(r.n)],
                                n |-> parent]

Builder_Cons(h, t, val) ==
    IF t.cnt - tailoff(t) < 32
    THEN [st |-> "ok",
          h |-> [h EXCEPT ![t.tail] = [len |-> @.len + 1,
                                       array |-> [@.array EXCEPT ![(t.cnt % width) + 1] = Elem(val)]]],
          b |-> [t EXCEPT !.cnt = @ + 1]]
    ELSE LET h1 == Alloc(h, h[t.tail])
             tailNode == Fresh(h)
             h2 == Alloc(h1, newValueNode(val))
             t1 == [t EXCEPT !.tail = Fresh(h1)]
         IN  IF Shr(t.cnt, bits) > 2 ^ t.shift
             THEN LET p == newPath(h2, t.shift, tailNode)
                      nr == [len |-> 2,
                             array |-> [j \in 1..width |->
                                          IF j = 1 THEN Ptr(t.root)
                                          ELSE IF j = 2 THEN Ptr(p.n) ELSE NilSlot]]
                  IN  [st |-> "ok",
                       h |-> Alloc(p.h, nr),
                       b |-> [t1 EXCEPT !.root = Fresh(p.h), !.shift = @ + 5, !.cnt = @ + 1]]
             ELSE LET r == Builder_pushTail(h2, t.cnt, t.shift, t.root, tailNode)
                  IN  IF r.st # "ok" THEN [st |-> "panic", h |-> r.h, b |-> t1]
                      ELSE [st |-> "ok", h |-> r.h,
                            b |-> [t1 EXCEPT !.root = r.n, !.cnt = @ + 1]]

(* for _, val := range ts { t.Cons(val) }, over ts[lo..hi]; the range is  *)
(* split in halves to keep the evaluation depth logarithmic.               *)
RECURSIVE Builder_AppendRange(_, _, _, _, _)
Builder_AppendRange(h, t, ts, lo, hi) ==
    IF lo > hi THEN [st |-> "ok", h |-> h, b |-> t]
    ELSE IF lo = hi THEN Builder_Cons(h, t, ts[lo])
    ELSE LET mid == (lo + hi) \div 2
             r == Builder_AppendRange(h, t, ts, lo, mid)
         IN  IF r.st # "ok" THEN r
             ELSE Builder_AppendRange(r.h, r.b, ts, mid + 1, hi)

(* A Builder.Append that leaves out the last value.  C5_NewHoldsItems does *)
(* not hold of it.                                                         *)
Builder_Append_SkipsLast(h, t, ts) == Builder_AppendRange(h, t, ts, 1, Len(ts) - 1)

Builder_Append(h, t, ts) == Builder_AppendRange(h, t, ts, 1, Len(ts))

Builder_Vector(t) == t

Builder_Len(t) == t.cnt

NewBuilder(h) == LET r == newVector(h) IN [h |-> r.h, b |-> r.v]

transient(h, v) ==
    LET r == IF IsZero(v) THEN newVector(h) ELSE [h |-> h, v |-> v]
        h1 == Alloc(r.h, r.h[r.v.root])
        h2 == Alloc(h1, h1[r.v.tail])
    IN  [h |-> h2,
         b |-> [cnt |-> r.v.cnt, shift |-> r.v.shift, root |-> Fresh(r.h), tail |-> Fresh(h1)]]

New(h, items) ==
    IF Len(items) > 0
    THEN LET t == transient(h, ZeroVector)
             r == Builder_Append(t.h, t.b, items)
         IN  [st |-> r.st, h |-> r.h, v |-> Builder_Vector(r.b)]
    ELSE [st |-> "ok", h |-> h, v |-> ZeroVector]

-----------------------------------------------------------------------------
(* Vector.Set and Vector.doAssoc.  doAssoc takes ret := n, the node itself, *)
(* and stores into it.                                                      *)

RECURSIVE doAssoc(_, _, _, _, _)
doAssoc(h, level, n, i, t) ==
    IF n = 0 THEN [st |-> "panic", h |-> h, n |-> 0]
    ELSE IF level = 0
    THEN [st |-> "ok", h |-> [h EXCEPT ![n].array[(i % width) + 1] = Elem(t)], n |-> n]
    ELSE LET subidx == Sub(i, level)
             child == h[n].array[subidx]
         IN  IF child.k # "ptr" THEN [st |-> "panic", h |-> h, n |-> 0]
             ELSE LET r == doAssoc(h, level - bits, child.v, i, t)
                  IN  IF r.st # "ok" THEN r
                      ELSE [st |-> "ok",
                            h |-> [r.h EXCEPT ![n].array[subidx] = Ptr(r.n)],
                            n |-> n]

RECURSIVE Vector_pushTail(_, _, _, _, _)
Vector_pushTail(h, cnt, level, parent, tailNode) ==
    LET subidx == Sub(cnt - 1, level)
    IN  IF parent = 0 THEN [st |-> "panic", h |-> h, n |-> 0]
        ELSE LET h1 == Alloc(h, h[parent])
                 ret == Fresh(h)
             IN  IF level = bits
                 THEN [st |-> "ok",
                       h |-> [h1 EXCEPT ![ret].array[subidx] = Ptr(tailNode)],
                       n |-> ret]
                 ELSE LET child == h[parent].array[subidx]
                      IN  IF child.k = "nil"
                          THEN LET p == newPath(h1, level - bits, tailNode)
                               IN  [st |-> "ok",
                                    h |-> [p.h EXCEPT ![ret].array[subidx] = Ptr(p.n)],
                                    n |-> ret]
                          ELSE IF child.k # "ptr" THEN [st |-> "panic", h |-> h1, n |-> 0]
                          ELSE LET r == Vector_pushTail(h1, cnt, level - bits, child.v, tailNode)
                               IN  IF r.st # "ok" THEN r
                                   ELSE [st |-> "ok",
                                         h |-> [r.h EXCEPT ![ret].array[subidx] = Ptr(r.n)],
                                         n |-> ret]

(* A cons that never adds a level: a full tail is always pushed under the  *)
(* present root.  C18_ShiftGrowsOnFullTree does not hold of it.            *)
cons_NeverGrows(h, v0, t) ==
    LET z == IF IsZero(v0) THEN newVector(h) ELSE [h |-> h, v |-> v0]
        v == z.v
    IN  IF v.cnt - tailoff(v) < 32
        THEN LET old == z.h[v.tail]
                 h1 == Alloc(z.h, [len |-> old.len + 1,
                                   array |-> [old.array EXCEPT ![old.len + 1] = Elem(t)]])
             IN  [st |-> "ok", h |-> h1,
                  v |-> [cnt |-> v.cnt + 1, shift |-> v.shift, root |-> v.root,
                         tail |-> Fresh(z.h)]]
        ELSE LET h2 == Alloc(z.h, z.h[v.tail])
                 r == Vector_pushTail(h2, v.cnt, v.shift, v.root, Fresh(z.h))
             IN  IF r.st # "ok" THEN [st |-> "panic", h |-> r.h, v |-> ZeroVector]
                 ELSE [st |-> "ok", h |-> Alloc(r.h, newValueNode(t)),
                       v |-> [cnt |-> v.cnt + 1, shift |-> v.shift,
                              root |-> r.n, tail |-> Fresh(r.h)]]

cons(h, v0, t) ==
    LET z == IF IsZero(v0) THEN newVector(h) ELSE [h |-> h, v |-> v0]
        v == z.v
    IN  IF v.cnt - tailoff(v) < 32
        THEN IF z.h[v.tail].len >= width THEN [st |-> "panic", h |-> z.h, v |-> ZeroVector]
             ELSE LET old == z.h[v.tail]
                      h1 == Alloc(z.h, [len |-> old.len + 1,
                                        array |-> [old.array EXCEPT ![old.len + 1] = Elem(t)]])
                  IN  [st |-> "ok", h |-> h1,
                       v |-> [cnt |-> v.cnt + 1, shift |-> v.shift, root |-> v.root,
                              tail |-> Fresh(z.h)]]
        ELSE LET h2 == Alloc(z.h, z.h[v.tail])
                 tailNode == Fresh(z.h)
             IN  IF Shr(v.cnt, bits) > 2 ^ v.shift
                 THEN LET p == newPath(h2, v.shift, tailNode)
                          nr == [len |-> 2,
                                 array |-> [j \in 1..width |->
                                              IF j = 1 THEN Ptr(v.root)
                                              ELSE IF j = 2 THEN Ptr(p.n) ELSE NilSlot]]
                          h3 == Alloc(p.h, nr)
                      IN  [st |-> "ok", h |-> Alloc(h3, newValueNode(t)),
                           v |-> [cnt |-> v.cnt + 1, shift |-> v.shift + bits,
                                  root |-> Fresh(p.h), tail |-> Fresh(h3)]]
                 ELSE LET r == Vector_pushTail(h2, v.cnt, v.shift, v.root, tailNode)
                      IN  IF r.st # "ok" THEN [st |-> "panic", h |-> r.h, v |-> ZeroVector]
                          ELSE [st |-> "ok", h |-> Alloc(r.h, newValueNode(t)),
                                v |-> [cnt |-> v.cnt + 1, shift |-> v.shift,
                                       root |-> r.n, tail |-> Fresh(r.h)]]

(* A Set that stores into the tail only and returns the receiver for an   *)
(* index in the tree.  C6_SetRoundTrip does not hold of it.                *)
Vector_Set_TailOnly(h, v, index, t) ==
    IF index >= 0 /\ index < v.cnt
    THEN IF index >= tailoff(v)
         THEN LET h1 == Alloc(h, [h[v.tail] EXCEPT !.array[(index % width) + 1] = Elem(t)])
              IN  [st |-> "ok", h |-> h1,
                   v |-> [cnt |-> v.cnt, shift |-> v.shift, root |-> v.root,
                          tail |-> Fresh(h)]]
         ELSE [st |-> "ok", h |-> h, v |-> v]
    ELSE IF index = v.cnt THEN cons(h, v, t)
    ELSE [st |-> "oob", h |-> h, v |-> ZeroVector]

Vector_Set(h, v, index, t) ==
    IF index >= 0 /\ index < v.cnt
    THEN IF index >= tailoff(v)
         THEN LET h1 == Alloc(h, [h[v.tail] EXCEPT !.array[(index % width) + 1] = Elem(t)])
              IN  [st |-> "ok", h |-> h1,
                   v |-> [cnt |-> v.cnt, shift |-> v.shift, root |-> v.root,
                          tail |-> Fresh(h)]]
         ELSE LET r == doAssoc(h, v.shift, v.root, index, t)
              IN  IF r.st # "ok" THEN [st |-> "panic", h |-> r.h, v |-> ZeroVector]
                  ELSE [st |-> "ok", h |-> r.h,
                        v |-> [cnt |-> v.cnt, shift |-> v.shift, root |-> r.n,
                               tail |-> v.tail]]
    ELSE IF index = v.cnt THEN cons(h, v, t)
    ELSE [st |-> "oob", h |-> h, v |-> ZeroVector]

Vector_Append(h, v, ts) ==
    IF Len(ts) = 0 THEN [st |-> "ok", h |-> h, v |-> v]
    ELSE IF Len(ts) = 1 THEN cons(h, v, ts[1])
    ELSE LET c == cons(h, v, ts[1])
         IN  IF c.st # "ok" THEN c
             ELSE LET b == transient(c.h, c.v)
                      r == Builder_AppendRange(b.h, b.b, ts, 2, Len(ts))
                  IN  IF r.st # "ok" THEN [st |-> "panic", h |-> r.h, v |-> ZeroVector]
                      ELSE [st |-> "ok", h |-> r.h, v |-> Builder_Vector(r.b)]

(* The loop of TestVector/Append: v = v.Append(ts[i]) for i = lo .. Len(ts). *)
RECURSIVE AppendEach(_, _, _, _)
AppendEach(h, v, ts, lo) ==
    IF lo > Len(ts) THEN [st |-> "ok", h |-> h, v |-> v]
    ELSE LET r == Vector_Append(h, v, <<ts[lo]>>)
         IN  IF r.st # "ok" THEN r ELSE AppendEach(r.h, r.v, ts, lo + 1)

-----------------------------------------------------------------------------
(* Vector.Pop and Vector.popTail.  popTail returns n = 0 for a nil         *)
(* *node[T]; the caller stores what it got into the slot, so a nil result  *)
(* becomes Ptr(0), an interface that holds a nil pointer and is not nil.   *)

(* A popTail that returns the first child of a branch node in place of the *)
(* node: the tree loses a level and shift keeps its value.                 *)
(* C14_ShiftIsDepth does not hold of it.                                   *)
popTail_Collapses(h, cnt, level, n) ==
    IF level > bits /\ n # 0 THEN [st |-> "ok", h |-> h, n |-> h[n].array[1].v]
    ELSE [st |-> "ok", h |-> h, n |-> n]

RECURSIVE popTail(_, _, _, _)
popTail(h, cnt, level, n) ==
    LET subidx == Sub(cnt - 2, level)
    IN  IF level > bits
        THEN IF n = 0 THEN [st |-> "panic", h |-> h, n |-> 0]
             ELSE LET child == h[n].array[subidx]
                  IN  IF child.k # "ptr" THEN [st |-> "panic", h |-> h, n |-> 0]
                      ELSE LET r == popTail(h, cnt, level - bits, child.v)
                           IN  IF r.st # "ok" THEN r
                               ELSE IF r.n = 0 /\ subidx = 1 THEN [st |-> "ok", h |-> r.h, n |-> 0]
                               ELSE [st |-> "ok",
                                     h |-> Alloc(r.h, [r.h[n] EXCEPT !.array[subidx] = Ptr(r.n)]),
                                     n |-> Fresh(r.h)]
        ELSE IF subidx = 1 THEN [st |-> "ok", h |-> h, n |-> 0]
        ELSE IF n = 0 THEN [st |-> "panic", h |-> h, n |-> 0]
        ELSE [st |-> "ok",
              h |-> Alloc(h, [h[n] EXCEPT !.array[subidx] = NodeVal]),
              n |-> Fresh(h)]

(* A Pop that truncates the receiver's own tail when the tail keeps an     *)
(* element.  C12_AppendPopLeaveReceiver does not hold of it.               *)
Vector_Pop_InPlace(h, v) ==
    IF v.cnt <= 1 THEN [st |-> "ok", h |-> h, v |-> ZeroVector]
    ELSE IF v.cnt - tailoff(v) > 1
    THEN LET old == h[v.tail]
         IN  [st |-> "ok",
              h |-> [h EXCEPT ![v.tail] = [len |-> old.len - 1,
                                           array |-> [old.array EXCEPT ![old.len] = NilSlot]]],
              v |-> [v EXCEPT !.cnt = @ - 1]]
    ELSE LET newTail == nodeFor(h, v, v.cnt - 2)
             r == popTail(h, v.cnt, v.shift, v.root)
             h1 == IF r.n = 0 THEN Alloc(r.h, EmptyNode) ELSE r.h
         IN  IF newTail.st # "ok" \/ r.st # "ok" THEN [st |-> "panic", h |-> h, v |-> ZeroVector]
             ELSE [st |-> "ok", h |-> h1,
                   v |-> [cnt |-> v.cnt - 1, shift |-> v.shift,
                          root |-> IF r.n = 0 THEN Fresh(r.h) ELSE r.n,
                          tail |-> newTail.n]]

(* A Pop that forgets to refill: it keeps the old tail when the tail held  *)
(* one element.  C4_PopRemovesLast does not hold of it.                    *)
Vector_Pop_StaleTail(h, v) ==
    IF v.cnt <= 1 THEN [st |-> "ok", h |-> h, v |-> ZeroVector]
    ELSE IF v.cnt - tailoff(v) > 1
    THEN LET old == h[v.tail]
             nl == old.len - 1
         IN  [st |-> "ok",
              h |-> Alloc(h, [len |-> nl,
                              array |-> [j \in 1..width |->
                                           IF j <= nl THEN old.array[j] ELSE NilSlot]]),
              v |-> [cnt |-> v.cnt - 1, shift |-> v.shift, root |-> v.root,
                     tail |-> Fresh(h)]]
    ELSE LET r == popTail(h, v.cnt, v.shift, v.root)
         IN  [st |-> "ok", h |-> r.h,
              v |-> [cnt |-> v.cnt - 1, shift |-> v.shift,
                     root |-> IF r.n = 0 THEN v.root ELSE r.n, tail |-> v.tail]]

Vector_Pop(h, v) ==
    IF v.cnt <= 1 THEN [st |-> "ok", h |-> h, v |-> ZeroVector]
    ELSE IF v.cnt - tailoff(v) > 1
    THEN LET old == h[v.tail]
             nl == old.len - 1
         IN  IF nl < 0 \/ nl > width THEN [st |-> "panic", h |-> h, v |-> ZeroVector]
             ELSE [st |-> "ok",
                   h |-> Alloc(h, [len |-> nl,
                                   array |-> [j \in 1..width |->
                                                IF j <= nl THEN old.array[j] ELSE NilSlot]]),
                   v |-> [cnt |-> v.cnt - 1, shift |-> v.shift, root |-> v.root,
                          tail |-> Fresh(h)]]
    ELSE LET newTail == nodeFor(h, v, v.cnt - 2)
         IN  IF newTail.st # "ok" THEN [st |-> "panic", h |-> h, v |-> ZeroVector]
             ELSE LET r == popTail(h, v.cnt, v.shift, v.root)
                  IN  IF r.st # "ok" THEN [st |-> "panic", h |-> r.h, v |-> ZeroVector]
                      ELSE LET h1 == IF r.n = 0 THEN Alloc(r.h, EmptyNode) ELSE r.h
                               root1 == IF r.n = 0 THEN Fresh(r.h) ELSE r.n
                               shrink == v.shift > bits /\ h1[root1].array[2].k = "nil"
                               renew == shrink /\ h1[root1].array[1].k = "nil"
                               h2 == IF renew THEN Alloc(h1, EmptyNode) ELSE h1
                               root2 == IF renew THEN Fresh(h1) ELSE root1
                           IN  [st |-> "ok", h |-> h2,
                                v |-> [cnt |-> v.cnt - 1,
                                       shift |-> IF shrink THEN v.shift - bits ELSE v.shift,
                                       root |-> root2, tail |-> newTail.n]]

-----------------------------------------------------------------------------
(* What a caller can observe of a Vector: Len and At(0), ..., At(Len-1).   *)
(* nodeFor(i) depends on i >> bits only, so At is evaluated by blocks of   *)
(* width indices: one nodeFor per block, then the slots of that node.      *)

Len_(v) == v.cnt

Block(h, v, b) ==
    LET r == nodeFor(h, v, b * width)
        m == IF (b + 1) * width <= v.cnt THEN width ELSE v.cnt - b * width
    IN  IF r.st # "ok" \/ r.n = 0 THEN [ok |-> FALSE, elems |-> <<>>]
        ELSE [ok |-> TRUE, elems |-> [j \in 1..m |-> AsT(h[r.n].array[j])]]

RECURSIVE ContentsRange(_, _, _, _)
ContentsRange(h, v, lo, hi) ==
    IF lo > hi THEN [ok |-> TRUE, elems |-> <<>>]
    ELSE IF lo = hi THEN Block(h, v, lo)
    ELSE LET mid == (lo + hi) \div 2
             a == ContentsRange(h, v, lo, mid)
             c == ContentsRange(h, v, mid + 1, hi)
         IN  IF a.ok /\ c.ok THEN [ok |-> TRUE, elems |-> a.elems \o c.elems]
             ELSE [ok |-> FALSE, elems |-> <<>>]

Contents(h, v) == ContentsRange(h, v, 0, Shr(v.cnt - 1, bits))

-----------------------------------------------------------------------------
(* The callers.  calls is the history of API calls made so far: each entry *)
(* holds the call, its arguments, its outcome st and the Vector it         *)
(* returned (vec).  bld is the Builder under construction, with the values *)
(* appended to it so far.                                                  *)

Items(n, seed) == [i \in 1..n |-> seed * 10000 + i]

NewLens == {0, 32, 33, 1056, 1057}

AppendArgs == {<<1, 1>>, <<33, 1>>, <<33, 2>>}

(* TestBulkAppend: one Append of many values to the zero-value Vector;    *)
(* and the Append that fills the tail of a Vector that has just grown to   *)
(* two levels, so that the next Append pushes a tail under a child of the  *)
(* root (TestVector/Append passes through every length).                   *)
BulkArgs(v) ==
    IF IsZero(v) THEN {<<1057, 1>>}
    ELSE IF v.cnt = width * width + width + 1 THEN {<<width - 1, 1>>}
    ELSE {}

SetIdx(v) == {-1, 0, v.cnt - 1, v.cnt, v.cnt + 1}

SetVals == {-7}

AtIdx(v) == {-1, 0, v.cnt - 1, v.cnt}

BatchLens == {0, 1, 2, 33}

BuilderLens == {0, 1, 32, 33, 1024, 1088}

NoBuilder == [live |-> FALSE, b |-> ZeroVector, items |-> <<>>]

Entry(op, src, idx, val, n, seed, st, vec) ==
    [op |-> op, src |-> src, idx |-> idx, val |-> val, n |-> n, seed |-> seed,
     st |-> st, vec |-> vec]

Last == calls[Len(calls)]

(* The calls that returned a Vector. *)
Returned(k) == calls[k].st = "ok" /\ calls[k].op \in {"New", "Append", "Set", "Pop", "Vector"}

Vectors == {k \in 1..Len(calls) : Returned(k)}

(* Two threads on a published Vector v: wr is the thread that runs Set,    *)
(* Append or Pop on v, with the stores into nodes v shares that it has not *)
(* made yet; rd is the thread in v.At(j), at node n with level bits of j   *)
(* left to descend.  old holds the elements of v when it was published.    *)
NoRace == [phase |-> "none", v |-> ZeroVector, old |-> <<>>,
           wr |-> [pc |-> "idle", stores |-> {}],
           rd |-> [pc |-> "idle", j |-> 0, level |-> 0, n |-> 0, val |-> 0]]

Init ==
    /\ heap = <<>>
    /\ calls = <<>>
    /\ bld = NoBuilder
    /\ race = NoRace

DoNew ==
    /\ Len(calls) < MaxCalls
    /\ Len(calls) < MaxNew
    /\ \E n \in NewLens :
         LET r == New(heap, Items(n, 0))
         IN  /\ heap' = r.h
             /\ calls' = Append(calls, Entry("New", 0, 0, 0, n, 0, r.st, r.v))
    /\ UNCHANGED <<bld, race>>

DoAppend ==
    /\ Len(calls) < MaxCalls
    /\ \E k \in Vectors : \E a \in AppendArgs \cup BulkArgs(calls[k].vec) :
         LET r == Vector_Append(heap, calls[k].vec, Items(a[1], a[2]))
         IN  /\ heap' = r.h
             /\ calls' = Append(calls, Entry("Append", k, 0, 0, a[1], a[2], r.st, r.v))
    /\ UNCHANGED <<bld, race>>

DoSet ==
    /\ Len(calls) < MaxCalls
    /\ \E k \in Vectors, x \in SetVals :
         \E i \in SetIdx(calls[k].vec) :
             LET r == Vector_Set(heap, calls[k].vec, i, x)
             IN  /\ heap' = r.h
                 /\ calls' = Append(calls, Entry("Set", k, i, x, 0, 0, r.st, r.v))
    /\ UNCHANGED <<bld, race>>

(* The loop of TestVector/Pop: v = v.Pop() until v is empty.  A history    *)
(* that is New followed by such a loop goes on past MaxCalls; it ends by   *)
(* itself after Len(v) calls.                                              *)
PopLoop ==
    /\ Len(calls) >= MaxCalls
    /\ calls[1].op = "New"
    /\ {j \in 2..Len(calls) : calls[j].op # "Pop" \/ calls[j].src # j - 1} = {}
    /\ Last.st = "ok"
    /\ Last.vec.cnt > 0

PopOf(k) ==
    LET r == Vector_Pop(heap, calls[k].vec)
    IN  /\ heap' = r.h
        /\ calls' = Append(calls, Entry("Pop", k, 0, 0, 0, 0, r.st, r.v))

DoPop ==
    /\ \/ Len(calls) < MaxCalls /\ \E k \in Vectors : PopOf(k)
       \/ PopLoop /\ PopOf(Len(calls))
    /\ UNCHANGED <<bld, race>>

DoAt ==
    /\ Len(calls) < MaxCalls
    /\ \E k \in Vectors :
         \E i \in AtIdx(calls[k].vec) :
             LET r == At(heap, calls[k].vec, i)
             IN  calls' = Append(calls, Entry("At", k, i, r.val, 0, 0, r.st, ZeroVector))
    /\ UNCHANGED <<heap, bld, race>>

Next == DoNew \/ DoAppend \/ DoSet \/ DoPop \/ DoAt

Spec == Init /\ [][Next]_vars

(* The callers of the Builder: NewBuilder, Append, Vector.  A Builder is   *)
(* not used again after Vector().                                          *)

DoNewBuilder ==
    /\ Len(calls) < MaxCalls
    /\ ~bld.live
    /\ LET r == NewBuilder(heap)
       IN  /\ heap' = r.h
           /\ bld' = [live |-> TRUE, b |-> r.b, items |-> <<>>]
    /\ UNCHANGED <<calls, race>>

DoBuilderAppend ==
    /\ Len(calls) < MaxCalls
    /\ bld.live
    /\ \E n \in BuilderLens :
         LET ts == [i \in 1..n |-> Len(bld.items) + i]
             r == Builder_Append(heap, bld.b, ts)
         IN  /\ heap' = r.h
             /\ bld' = [live |-> TRUE, b |-> r.b,
                        items |-> IF r.st = "ok" THEN bld.items \o ts ELSE bld.items]
             /\ calls' = Append(calls, Entry("Builder.Append", 0, 0, 0, n, 0, r.st, ZeroVector))
    /\ UNCHANGED race

DoBuilderVector ==
    /\ Len(calls) < MaxCalls
    /\ bld.live
    /\ calls' = Append(calls, Entry("Vector", 0, 0, 0, Builder_Len(bld.b), 0, "ok",
                                    Builder_Vector(bld.b)))
    /\ bld' = [bld EXCEPT !.live = FALSE]
    /\ UNCHANGED <<heap, race>>

NextB == DoNewBuilder \/ DoBuilderAppend \/ DoBuilderVector

SpecB == Init /\ [][NextB]_vars

(* A program that uses both: Builders, and the Vector calls on any Vector  *)
(* it holds, those that Builder.Vector() returned included.                *)
NextAll == Next \/ NextB

SpecAll == Init /\ [][NextAll]_vars

-----------------------------------------------------------------------------
(* Two threads on one published Vector.  The writer runs one Set, Append   *)
(* or Pop on v: it allocates its new nodes, which no other thread can      *)
(* reach, and then makes, one store per step, the stores of the call into  *)
(* nodes that existed before it (doAssoc's ret.array[...] = ..., the       *)
(* Builder's pushTail).  The reader runs v.At(j): nodeFor reads one slot   *)
(* per level, then At reads the slot of the leaf.  A store that puts back  *)
(* the value a slot already holds gives a reader nothing else to read and  *)
(* is left out.                                                            *)

RaceLens == {33, 1056, 1057}

RaceOps(v) ==
    {[op |-> "Set", i |-> 0], [op |-> "Set", i |-> v.cnt - 1],
     [op |-> "Append", i |-> 1], [op |-> "Append", i |-> 33],
     [op |-> "Pop", i |-> 0]}

RaceIdx(v) == {0, v.cnt - 1}

RunOp(h, v, o) ==
    IF o.op = "Set" THEN Vector_Set(h, v, o.i, -7)
    ELSE IF o.op = "Append" THEN Vector_Append(h, v, Items(o.i, 1))
    ELSE Vector_Pop(h, v)

(* The stores that take the nodes of h to their state in h2. *)
SharedStores(h, h2) ==
    {[n |-> q[1], j |-> q[2], val |-> h2[q[1]].array[q[2]]] :
        q \in {p \in (1..Len(h)) \X (1..width) :
                 h2[p[1]].array[p[2]] # h[p[1]].array[p[2]]}}

(* The nodes reachable from node n, level bits above the leaves, and from  *)
(* the Vector v.                                                           *)
RECURSIVE ReachFrom(_, _, _)
ReachFrom(h, n, level) ==
    IF n = 0 THEN {}
    ELSE IF level <= 0 THEN {n}
    ELSE {n} \cup UNION {ReachFrom(h, h[n].array[j].v, level - bits) :
                            j \in {i \in 1..width : h[n].array[i].k = "ptr"}}

Reach(h, v) == IF IsZero(v) THEN {} ELSE {v.tail} \cup ReachFrom(h, v.root, v.shift)

DoPublish ==
    /\ race.phase = "none"
    /\ \E n \in RaceLens :
         LET r == New(heap, Items(n, 0))
         IN  /\ heap' = r.h
             /\ race' = [NoRace EXCEPT !.phase = "published", !.v = r.v,
                                       !.old = Contents(r.h, r.v).elems]
    /\ UNCHANGED <<calls, bld>>

WriterBegin ==
    /\ race.phase = "published"
    /\ race.wr.pc = "idle"
    /\ \E o \in RaceOps(race.v) :
         LET r == RunOp(heap, race.v, o)
         IN  /\ heap' = [n \in 1..Len(r.h) |-> IF n <= Len(heap) THEN heap[n] ELSE r.h[n]]
             /\ race' = [race EXCEPT !.wr = [pc |-> "storing",
                                             stores |-> SharedStores(heap, r.h)]]
    /\ UNCHANGED <<calls, bld>>

WriterStore ==
    /\ race.wr.pc = "storing"
    /\ \E s \in race.wr.stores :
         /\ heap' = [heap EXCEPT ![s.n].array[s.j] = s.val]
         /\ race' = [race EXCEPT !.wr.stores = @ \ {s}]
    /\ UNCHANGED <<calls, bld>>

WriterReturn ==
    /\ race.wr.pc = "storing"
    /\ race.wr.stores = {}
    /\ race' = [race EXCEPT !.wr.pc = "done"]
    /\ UNCHANGED <<heap, calls, bld>>

ReaderBegin ==
    /\ race.phase = "published"
    /\ race.rd.pc = "idle"
    /\ \E j \in RaceIdx(race.v) :
         race' = [race EXCEPT !.rd =
                    IF j >= tailoff(race.v)
                    THEN [pc |-> "leaf", j |-> j, level |-> 0, n |-> race.v.tail, val |-> 0]
                    ELSE [pc |-> "walk", j |-> j, level |-> race.v.shift,
                          n |-> race.v.root, val |-> 0]]
    /\ UNCHANGED <<heap, calls, bld>>

ReaderWalk ==
    /\ race.rd.pc = "walk"
    /\ LET s == heap[race.rd.n].array[Sub(race.rd.j, race.rd.level)]
       IN  race' = [race EXCEPT !.rd =
                      IF s.k # "ptr" \/ s.v = 0 THEN [@ EXCEPT !.pc = "panic"]
                      ELSE [@ EXCEPT !.n = s.v, !.level = @ - bits,
                                     !.pc = IF race.rd.level - bits <= 0 THEN "leaf"
                                            ELSE "walk"]]
    /\ UNCHANGED <<heap, calls, bld>>

ReaderRead ==
    /\ race.rd.pc = "leaf"
    /\ race' = [race EXCEPT !.rd.val = AsT(heap[race.rd.n].array[(race.rd.j % width) + 1]),
                            !.rd.pc = "done"]
    /\ UNCHANGED <<heap, calls, bld>>

NextC ==
    \/ DoPublish \/ WriterBegin \/ WriterStore \/ WriterReturn
    \/ ReaderBegin \/ ReaderWalk \/ ReaderRead

SpecC == Init /\ [][NextC]_vars

-----------------------------------------------------------------------------
(* The step that makes a call of op; in such a step Made is the call's     *)
(* entry and Receiver the Vector it was made on.                           *)

Calls(op) == Len(calls') = Len(calls) + 1 /\ calls'[Len(calls')].op = op

Made == calls'[Len(calls')]

Receiver == calls[Made.src].vec

(* C1: after v2 = v.Set(i, x) with 0 <= i < v.Len(), v has the length and  *)
(* the elements it had before the call.                                    *)
C1_SetLeavesReceiver ==
    [][(Calls("Set") /\ Made.idx >= 0 /\ Made.idx < Receiver.cnt)
         => Contents(heap', Receiver) = Contents(heap, Receiver)]_vars

(* C2: in a history of New, Append and Pop calls, a call leaves the length *)
(* and the elements of every Vector returned so far as they were.          *)
C2_VersionsKeepElements ==
    [][(\A j \in 1..Len(calls') : calls'[j].op \in {"New", "Append", "Pop"})
         => \A k \in Vectors :
              Contents(heap', calls[k].vec) = Contents(heap, calls[k].vec)]_vars

(* C3: Append never fails: every Append call of the history returned a     *)
(* Vector.                                                                 *)
C3_AppendNeverFails ==
    \A k \in 1..Len(calls) :
        calls[k].op = "Append" => calls[k].st = "ok"

C5_NewHoldsItems ==
    (Len(calls) > 0 /\ Last.op = "New")
        => /\ Last.st = "ok"
           /\ Len_(Last.vec) = Last.n
           /\ \A i \in 0..(Last.n - 1) :
                At(heap, Last.vec, i) = [st |-> "ok", val |-> Items(Last.n, 0)[i + 1]]

(* New of 1057 values: past the tail boundary and past the first growth of *)
(* the tree.                                                               *)
C5_Witness ==
    /\ Len(calls) > 0
    /\ Last.op = "New"
    /\ Last.st = "ok"
    /\ Last.n = 1057
    /\ Last.vec.shift = 2 * bits

(* C6: for 0 <= i < v.Len(), v.Set(i, x) has the length of v, holds x at i *)
(* and holds at every other index the value v had there before the call.   *)
C6_SetRoundTrip ==
    [][(Calls("Set") /\ Made.idx >= 0 /\ Made.idx < Receiver.cnt)
         => /\ Made.st = "ok"
            /\ Len_(Made.vec) = Receiver.cnt
            /\ Contents(heap, Receiver).ok
            /\ Contents(heap', Made.vec) =
                 [ok |-> TRUE,
                  elems |-> [Contents(heap, Receiver).elems
                               EXCEPT ![Made.idx + 1] = Made.val]]]_vars

(* A Set at an index held in the tree of a Vector with two levels. *)
C6_Witness ==
    \E k \in 1..Len(calls) :
        /\ calls[k].op = "Set"
        /\ calls[k].st = "ok"
        /\ calls[k].idx >= 0
        /\ calls[k].idx < tailoff(calls[calls[k].src].vec)
        /\ calls[calls[k].src].vec.shift > bits

(* C7: At(i) fails with the out-of-range error exactly when i < 0 or       *)
(* i >= Len(), Set(i, x) exactly when i < 0 or i > Len(); a call that      *)
(* fails returns no Vector and leaves every node, and so the receiver, as  *)
(* it was.                                                                 *)
C7_OutOfRange ==
    [][(Calls("At") \/ Calls("Set"))
         => /\ Calls("At") =>
                 (Made.st = "oob" <=> (Made.idx < 0 \/ Made.idx >= Receiver.cnt))
            /\ Calls("Set") =>
                 (Made.st = "oob" <=> (Made.idx < 0 \/ Made.idx > Receiver.cnt))
            /\ Made.st # "ok" =>
                 /\ Made.vec = ZeroVector
                 /\ SubSeq(heap', 1, Len(heap)) = heap
                 /\ Contents(heap', Receiver) = Contents(heap, Receiver)]_vars

(* An At and a Set that failed with the out-of-range error, one of them on *)
(* an empty Vector.                                                        *)
C7_Witness ==
    /\ \E k \in 1..Len(calls) :
         calls[k].op = "At" /\ calls[k].st = "oob" /\ calls[calls[k].src].vec.cnt = 0
    /\ \E k \in 1..Len(calls) :
         calls[k].op = "Set" /\ calls[k].st = "oob" /\ calls[k].idx > 0
(* C8: for every Vector v returned so far, v.Append(x).Pop() has the       *)
(* length of v and the elements of v.                                      *)
C8_AppendThenPop ==
    \A k \in Vectors :
        LET v == calls[k].vec
            a == Vector_Append(heap, v, <<-7>>)
            p == Vector_Pop(a.h, a.v)
        IN  /\ a.st = "ok"
            /\ p.st = "ok"
            /\ Len_(p.v) = Len_(v)
            /\ Contents(p.h, p.v).ok
            /\ Contents(p.h, p.v) = Contents(heap, v)

(* C9: for every Vector v returned so far and every xs, v.Append(xs...)    *)
(* and the Appends of xs one value per call both return a Vector of length *)
(* v.Len() + len(xs) that holds the elements of v, then xs; with no value  *)
(* Append returns v itself.                                                *)
C9_BatchAsOneByOne ==
    \A k \in Vectors : \A n \in BatchLens :
        LET v == calls[k].vec
            xs == Items(n, 9)
            a == Vector_Append(heap, v, xs)
            e == AppendEach(heap, v, xs, 1)
            want == [ok |-> TRUE, elems |-> Contents(heap, v).elems \o xs]
        IN  /\ a.st = "ok" /\ e.st = "ok"
            /\ Len_(a.v) = Len_(v) + n
            /\ Len_(e.v) = Len_(v) + n
            /\ Contents(heap, v).ok
            /\ Contents(a.h, a.v) = want
            /\ Contents(e.h, e.v) = want
            /\ n = 0 => a.v = v
(* What a caller gets from a call that returns a Vector: the failure, or   *)
(* the length and the elements of the Vector returned.                     *)
Outcome(r) ==
    IF r.st = "ok" THEN [st |-> "ok", len |-> Len_(r.v), c |-> Contents(r.h, r.v)]
    ELSE [st |-> r.st, len |-> 0, c |-> [ok |-> FALSE, elems |-> <<>>]]

(* C10: a Builder from NewBuilder, filled with xs by one or several        *)
(* Append calls, reports Len() = len(xs) at Vector() and yields a Vector   *)
(* with the elements of New(xs); Set, Append and Pop on that Vector give   *)
(* what they give on New(xs).                                              *)
C10_BuilderAsNew ==
    (Len(calls) > 0 /\ Last.op = "Vector" /\ ~bld.live)
        => LET xs == bld.items
               b == Last.vec
               n == New(heap, xs)
           IN  /\ Last.n = Len(xs)
               /\ n.st = "ok"
               /\ Contents(heap, b) = [ok |-> TRUE, elems |-> xs]
               /\ Contents(n.h, n.v) = Contents(heap, b)
               /\ \A i \in SetIdx(b) :
                    Outcome(Vector_Set(heap, b, i, -7)) = Outcome(Vector_Set(n.h, n.v, i, -7))
               /\ \A m \in BatchLens :
                    Outcome(Vector_Append(heap, b, Items(m, 9)))
                        = Outcome(Vector_Append(n.h, n.v, Items(m, 9)))
               /\ Outcome(Vector_Pop(heap, b)) = Outcome(Vector_Pop(n.h, n.v))

(* Vector() of a Builder filled with 1057 values by two Append calls. *)
C10_Witness ==
    /\ Len(calls) = 3
    /\ Last.op = "Vector"
    /\ ~bld.live
    /\ Len(bld.items) = 1057
    /\ Last.vec.shift = 2 * bits

(* C11: v.Set(v.Len(), x) gives what v.Append(x) gives: a Vector of length *)
(* v.Len() + 1 with x at index v.Len() and the elements of v before it;    *)
(* v has after the call the elements it had before.                        *)
C11_SetAtLenAppends ==
    [][(Calls("Set") /\ Made.idx = Receiver.cnt)
         => /\ Made.st = "ok"
            /\ Vector_Append(heap, Receiver, <<Made.val>>).st = "ok"
            /\ Len_(Made.vec) = Receiver.cnt + 1
            /\ Contents(heap, Receiver).ok
            /\ Contents(heap', Made.vec) =
                 [ok |-> TRUE, elems |-> Append(Contents(heap, Receiver).elems, Made.val)]
            /\ Contents(heap', Made.vec) =
                 Outcome(Vector_Append(heap, Receiver, <<Made.val>>)).c
            /\ Contents(heap', Receiver) = Contents(heap, Receiver)]_vars

(* What later calls on v give: Set at the indices of SetIdx, Append of     *)
(* BatchLens values and Pop.                                               *)
Later(h, v) ==
    [set |-> [i \in SetIdx(v) |-> Outcome(Vector_Set(h, v, i, -7))],
     app |-> [m \in BatchLens |-> Outcome(Vector_Append(h, v, Items(m, 9)))],
     pop |-> Outcome(Vector_Pop(h, v))]

(* C12: after v2 = v.Append(xs) or v2 = v.Pop(), v has the length and the  *)
(* elements it had before the call, and Append, Set and Pop on v give what *)
(* they gave before the call.                                              *)
C12_AppendPopLeaveReceiver ==
    [][(Calls("Append") \/ Calls("Pop"))
         => /\ Contents(heap', Receiver) = Contents(heap, Receiver)
            /\ Later(heap', Receiver) = Later(heap, Receiver)]_vars

(* An Append of 33 values to a Vector of 1057 elements, which pushes a     *)
(* full tail into the two-level tree of the receiver, and a Pop that       *)
(* refilled the tail from that tree.                                       *)
C12_Witness ==
    /\ \E k \in 1..Len(calls) :
         /\ calls[k].op = "Append" /\ calls[k].st = "ok" /\ calls[k].n = 33
         /\ calls[calls[k].src].vec.cnt = 1057
    /\ \E k \in 1..Len(calls) :
         /\ calls[k].op = "Pop" /\ calls[k].st = "ok"
         /\ calls[calls[k].src].vec.cnt = 1057
(* C13: with a writer running Set, Append or Pop on a published Vector v   *)
(* and a reader in v.At(j), the reader gets the element v held at j when   *)
(* it was published, and the writer has no store to make into a node       *)
(* reachable from v.                                                       *)
C13_ReadersSeePublished ==
    /\ race.rd.pc # "panic"
    /\ race.rd.pc = "done" => race.rd.val = race.old[race.rd.j + 1]
    /\ \A s \in race.wr.stores : s.n \notin Reach(heap, race.v)
(* The walk of nodeFor for the indices of block b (b * width and the next  *)
(* width - 1) goes through shift / bits branch nodes, each met through a   *)
(* slot that holds a non-nil *node[T], and ends on a node whose width      *)
(* slots hold elements.                                                    *)
RECURSIVE WalkOK(_, _, _, _)
WalkOK(h, n, level, i) ==
    /\ n # 0
    /\ IF level <= 0
       THEN \A j \in 1..width : h[n].array[j].k = "elem"
       ELSE /\ h[n].array[Sub(i, level)].k = "ptr"
            /\ WalkOK(h, h[n].array[Sub(i, level)].v, level - bits, i)

TreeOK(h, v) ==
    \/ IsZero(v)
    \/ /\ v.shift >= bits
       /\ v.shift % bits = 0
       /\ \A b \in 0..(Shr(tailoff(v), bits) - 1) : WalkOK(h, v.root, v.shift, b * width)

(* The Vectors whose nodes are looked at in a state: those of the first    *)
(* MaxCalls calls and the one returned last.                               *)
Watched == {k \in Vectors : k <= MaxCalls \/ k = Len(calls)}

AppendPopOnly ==
    /\ Len(calls) >= 1
    /\ calls[1].op = "New" /\ calls[1].n = 0
    /\ {j \in 2..Len(calls) : calls[j].op \notin {"Append", "Pop"}} = {}

BuiltByAppend(n) == Vector_Append(<<>>, ZeroVector, Items(n, 0)).v

(* C15: a Vector obtained by Append and Pop calls has the shift of a       *)
(* Vector of its length built by Append alone; a Pop never returns a root  *)
(* with a single child at shift > 5, and when it decreases shift, by 5,    *)
(* the new root is the surviving child or an empty node.                   *)
C15_PopKeepsHeightMinimal ==
    (AppendPopOnly /\ Returned(Len(calls)))
        => /\ Last.vec.shift = BuiltByAppend(Last.vec.cnt).shift
           /\ (Last.op = "Pop" /\ Last.vec.shift > bits) =>
                 LET s == heap[Last.vec.root].array[2]
                 IN  s.k = "ptr" /\ s.v # 0
           /\ (Last.op = "Pop" /\ Last.vec.cnt > 0
                 /\ Last.vec.shift # calls[Last.src].vec.shift) =>
                 /\ Last.vec.shift = calls[Last.src].vec.shift - bits
                 /\ \/ heap[Last.vec.root] = EmptyNode
                    \/ Ptr(Last.vec.root) = heap[calls[Last.src].vec.root].array[1]

-----------------------------------------------------------------------------
(* The elements held by the leaves under n, level bits above them: the sum *)
(* of node.len over the leaves reached through non-nil child slots.        *)
RECURSIVE LeafElems(_, _, _), LeafElemsFrom(_, _, _, _)
LeafElems(h, n, level) ==
    IF n = 0 THEN 0
    ELSE IF level <= 0 THEN h[n].len
    ELSE LeafElemsFrom(h, n, level, 1)

LeafElemsFrom(h, n, level, j) ==
    IF j > width THEN 0
    ELSE (IF h[n].array[j].k = "ptr" THEN LeafElems(h, h[n].array[j].v, level - bits) ELSE 0)
         + LeafElemsFrom(h, n, level, j + 1)

(* The tail of v, a Vector or a Builder, against its count. *)
TailOK(h, v) ==
    LET t == h[v.tail]
        n == v.cnt - tailoff(v)
    IN  /\ t.len = n
        /\ v.cnt > 0 => n \in 1..width
        /\ \A j \in 1..n :
              /\ t.array[j].k = "elem"
              /\ At(h, v, tailoff(v) + j - 1) = [st |-> "ok", val |-> t.array[j].v]
        /\ v.cnt = LeafElems(h, v.root, v.shift) + t.len

(* C16: in every non-zero Vector and in every Builder, tail.len is         *)
(* cnt - tailoff(), it is in 1..32 when cnt > 0, tail slots 0..len-1 hold  *)
(* the elements at indices tailoff()..cnt-1 (for a Builder, the values     *)
(* appended at these positions), and cnt is the number of elements in the  *)
(* leaves under the root plus tail.len.                                    *)
C16_TailLenIsCount ==
    /\ \A k \in Watched : IsZero(calls[k].vec) \/ TailOK(heap, calls[k].vec)
    /\ bld.live =>
          /\ TailOK(heap, bld.b)
          /\ \A j \in 1..(bld.b.cnt - tailoff(bld.b)) :
                heap[bld.b.tail].array[j] = Elem(bld.items[tailoff(bld.b) + j])

-----------------------------------------------------------------------------
(* The slots of the nodes under n, level bits above the leaves: a slot of  *)
(* a branch node is empty or refers to a child node, a slot of a leaf is   *)
(* empty or holds an element.                                              *)
RECURSIVE KindsOK(_, _, _)
KindsOK(h, n, level) ==
    IF level <= 0
    THEN \A j \in 1..width : h[n].array[j].k \in {"nil", "elem"}
    ELSE \A j \in 1..width :
           LET s == h[n].array[j]
           IN  \/ s.k = "nil"
               \/ s.k = "ptr" /\ s.v # 0 /\ KindsOK(h, s.v, level - bits)

UnmixedOK(h, v) ==
    /\ KindsOK(h, v.root, v.shift)
    /\ KindsOK(h, v.tail, 0)
    /\ v.root # v.tail

(* C17: in every Vector and Builder that NewBuilder, Builder.Append,       *)
(* Vector(), New, Append, Set and Pop produce, the slots of a branch node  *)
(* under the root hold child nodes only, the slots of a leaf and of the    *)
(* tail hold elements only, and root and tail are two nodes.               *)
C17_SlotKindsUnmixed ==
    /\ \A k \in Watched : IsZero(calls[k].vec) \/ UnmixedOK(heap, calls[k].vec)
    /\ bld.live => UnmixedOK(heap, bld.b)

-----------------------------------------------------------------------------
(* A history of appends from the empty Vector or Builder: New, Append,     *)
(* NewBuilder, Builder.Append, Vector().                                   *)
AppendsOnly(cs) ==
    {j \in 1..Len(cs) : cs[j].op \notin {"New", "Append", "Builder.Append", "Vector"}
                           \/ cs[j].st # "ok"} = {}

(* What the tree holds when it is full at shift s, and the shift of a      *)
(* Vector of n elements that grows only when a tail is pushed into a full  *)
(* tree.                                                                   *)
FullAt(s) == width ^ (s \div bits + 1)

ShiftOf(n) == IF n <= FullAt(bits) + width THEN bits
              ELSE IF n <= FullAt(2 * bits) + width THEN 2 * bits
              ELSE 3 * bits

(* n is the top of a chain of path nodes, each with its one child in slot  *)
(* 0, allocated after the first lim nodes, level bits above a leaf with    *)
(* the slots of leaf.                                                      *)
RECURSIVE SinglePath(_, _, _, _, _)
SinglePath(h, lim, n, level, leaf) ==
    IF level <= 0 THEN n # 0 /\ h[n].array = leaf.array
    ELSE /\ n > lim
         /\ h[n].array[1].k = "ptr"
         /\ \A j \in 2..width : h[n].array[j] = NilSlot
         /\ SinglePath(h, lim, h[n].array[1].v, level - bits, leaf)

(* The nodes from n down to the branch node that takes the leaf of index   *)
(* i, in h.                                                                *)
RECURSIVE InsertionPath(_, _, _, _)
InsertionPath(h, n, level, i) ==
    IF n = 0 \/ level < bits THEN {}
    ELSE {n} \cup (IF level > bits /\ h[n].array[Sub(i, level)].k = "ptr"
                   THEN InsertionPath(h, h[n].array[Sub(i, level)].v, level - bits, i)
                   ELSE {})

(* Node m of h2 is node n of h but for the slot on the way to index i,     *)
(* which leads to the pushed leaf.                                         *)
RECURSIVE PathOK(_, _, _, _, _, _, _)
PathOK(h, h2, n, m, level, i, leaf) ==
    LET sub == Sub(i, level)
        was == h[n].array[sub]
        now == h2[m].array[sub]
    IN  /\ \A j \in (1..width) \ {sub} : h2[m].array[j] = h[n].array[j]
        /\ now.k = "ptr"
        /\ IF level = bits THEN SinglePath(h2, Len(h), now.v, 0, leaf)
           ELSE IF was.k = "ptr" /\ was.v # 0
                THEN PathOK(h, h2, was.v, now.v, level - bits, i, leaf)
                ELSE SinglePath(h2, Len(h), now.v, level - bits, leaf)

(* One element appended to old (in heap h) gave new (in heap h2). *)
ConsOK(h, h2, old, new) ==
    LET full == old.cnt - tailoff(old) = width
        grow == full /\ tailoff(old) = FullAt(old.shift)
        r == h2[new.root].array
    IN  /\ grow <=> (full /\ Shr(old.cnt, bits) > 2 ^ old.shift)
        /\ new.shift = IF grow THEN old.shift + bits ELSE old.shift
        /\ grow =>
              /\ new.root > Len(h)
              /\ r[1] = Ptr(old.root)
              /\ r[2].k = "ptr" /\ SinglePath(h2, Len(h), r[2].v, old.shift, h[old.tail])
              /\ \A j \in 3..width : r[j] = NilSlot
              /\ {p \in 1..Len(h) : h2[p] # h[p]} = {}
        /\ (full /\ ~grow) =>
              /\ PathOK(h, h2, old.root, new.root, old.shift, old.cnt - 1, h[old.tail])
              /\ {p \in 1..Len(h) : h2[p] # h[p]}
                    \subseteq InsertionPath(h, old.root, old.shift, old.cnt - 1)

(* C18: in a history of appends from the empty Vector or Builder, shift is *)
(* a multiple of 5, at least 5, and the one its count gives; an append of  *)
(* one element raises shift, by 5, exactly when the tail is full and the   *)
(* tree holds 32^(shift/5 + 1) elements, which is the test                 *)
(* cnt >> 5 > 1 << shift; the new root then has two children, the old root *)
(* and a new chain of single-child nodes down to the pushed tail; any      *)
(* other push changes no node off the path to the pushed tail, and a       *)
(* Vector's push puts new nodes on that path and stores into no old one.   *)
C18_ShiftGrowsOnFullTree ==
    [][AppendsOnly(calls') =>
         /\ Calls("Append") =>
               /\ IsZero(Made.vec) \/ (/\ Made.vec.shift % bits = 0
                                        /\ Made.vec.shift >= bits
                                        /\ Made.vec.shift = ShiftOf(Made.vec.cnt))
               /\ (Made.n = 1 /\ ~IsZero(Receiver)) =>
                     /\ ConsOK(heap, heap', Receiver, Made.vec)
                     /\ {p \in 1..Len(heap) : heap'[p] # heap[p]} = {}
               /\ (Made.n = 1 /\ IsZero(Receiver)) => Made.vec.shift = bits
         /\ bld'.live =>
               /\ bld'.b.shift % bits = 0
               /\ bld'.b.shift >= bits
               /\ bld'.b.shift = ShiftOf(bld'.b.cnt)
         /\ (Calls("Builder.Append") /\ Made.n = 1) => ConsOK(heap, heap', bld.b, bld'.b)
    ]_vars

(* New(1, ..., 1056) and one more value appended: the Append that adds a   *)
(* level to a full one-level tree.                                         *)
C18_Witness ==
    /\ AppendsOnly(calls)
    /\ \E k \in Vectors :
          /\ calls[k].op = "Append" /\ calls[k].n = 1
          /\ calls[calls[k].src].vec.cnt = FullAt(bits) + width
          /\ calls[calls[k].src].vec.shift = bits
          /\ calls[k].vec.shift = 2 * bits
====
